---- MODULE Spec2Model ----
(***************************************************************************)
(* Model of the asynchronous conversion pipeline of convert-video:        *)
(*   VideosService   (apps/backend/src/videos/videos.service.ts)          *)
(*   VideoProcessor  (video-processor.processor.ts, src/unnamed/part_002) *)
(*   VideosController.download / delete (videos.controller.ts)            *)
(*   VideosGateway notifications (videos.gateway.ts, src/unnamed/part_001)*)
(*   Video schema    (video.schema.ts, src/unnamed/part_003)              *)
(*                                                                         *)
(* Every `await` of the handlers is a step boundary: the database call or *)
(* external process of one step runs atomically, then the handler's       *)
(* continuation up to its next await.  Mongoose's save() sends the delta  *)
(* of the modified paths: an array push becomes an atomic $push (with     *)
(* $inc __v), a change of an existing element becomes a positional $set   *)
(* guarded by the __v read with the document (VersionError otherwise).    *)
(* findByIdAndUpdate is one atomic $set of the given fields.              *)
(***************************************************************************)
EXTENDS Integers, Sequences, FiniteSets, TLC

----------------------------------------------------------------------------
(* Values *)

\* JavaScript values are tagged so that values of different types compare:
\* null, numbers, NaN, and strings (a string is its content and its length).
Null == [null |-> TRUE]
NaN == [nan |-> TRUE]
Num(n) == [num |-> n]
Str(what, len) == [str |-> what, len |-> len]

UPLOADED == "uploaded"
PROCESSING == "processing"
COMPLETED == "completed"
FAILED == "failed"
VideoStatus == {UPLOADED, PROCESSING, COMPLETED, FAILED}

SUPPORTED_FORMATS == <<"mp4", "webm", "avi", "mov", "mkv", "flv">>

\* Bound: a job's fan-out covers the first NumFormats supported formats.
NumFormats == 2

\* BullModule.registerQueue({name: 'video-processing'}) sets no settings, so
\* Bull's default maxStalledCount holds: a job that stalled is handed to the
\* processor once more.
maxStalledCount == 1

Min(a, b) == IF a < b THEN a ELSE b

getAvailableFormats == SubSeq(SUPPORTED_FORMATS, 1, Min(NumFormats, Len(SUPPORTED_FORMATS)))

FormatValues == {getAvailableFormats[i] : i \in 1..Len(getAvailableFormats)}

\* The one uploaded video of the model and its owner.
VideoId == "v1"
Owner == "alice"
RawFilePath == [dir |-> "uploads/raw", name |-> "clip.mp4"]
RawFileSize == 1000

\* Users and original filenames of the upload requests.
Users == {"alice", "bob"}
Filenames == {"clip.mp4", "talk.mov"}

\* Bound: the createVideo calls (upload requests, or the files of one
\* multi-file request, which Promise.all creates in parallel).
NumCreateCalls == 3
CreateCalls == 1..NumCreateCalls

\* Bound: the sockets that connect to the gateway; a socket's id is its number.
NumSockets == 2
Sockets == 1..NumSockets

\* Credentials a handshake can carry: a token that verifies for a user, one
\* that does not verify (bad signature, expired), and one that verifies but
\* whose payload has no email.
TokenOf(u) == [email |-> u, verifies |-> TRUE]
BadToken == [email |-> "alice", verifies |-> FALSE]
NoEmailToken == [email |-> "", verifies |-> TRUE]

\* Handshakes: the token of the cookie, of handshake.auth, and of the
\* Authorization header, Null where absent.
Handshakes ==
  { [cookie |-> Null, auth |-> Null, bearer |-> Null],
    [cookie |-> TokenOf("alice"), auth |-> TokenOf("bob"), bearer |-> Null],
    [cookie |-> Null, auth |-> TokenOf("bob"), bearer |-> Null],
    [cookie |-> Null, auth |-> Null, bearer |-> TokenOf("alice")],
    [cookie |-> BadToken, auth |-> TokenOf("alice"), bearer |-> Null],
    [cookie |-> Null, auth |-> NoEmailToken, bearer |-> TokenOf("bob")] }

\* Bound: the notify calls the gateway receives in SpecGateway.
NumNotifications == 1

\* Bound: the requests of SpecAccess.
NumRequests == 3

\* Formats a download request asks for.
DownloadFormats == {"mp4"}

\* Formats of the download requests of SpecDownload: a supported one, the same
\* in upper case, and one outside SUPPORTED_FORMATS that ffmpeg can write.
RequestedFormats == {"mp4", "MP4", "ts"}

\* getSupportedFormatValues, lines 86-88
getSupportedFormatValues == {SUPPORTED_FORMATS[i] : i \in 1..Len(SUPPORTED_FORMATS)}

\* String.prototype.toLowerCase on the formats of the model
toLowerCase(format) == IF format = "MP4" THEN "mp4" ELSE format

\* What ffprobe prints for the raw file: format.duration (a string, Null when
\* absent) and the width/height of streams[0] (Null when absent).
ProbeOutputs ==
  { [duration |-> Str("12.5", 4), width |-> Num(1920), height |-> Num(1080)],
    [duration |-> Str("0.000000", 8), width |-> Null, height |-> Null] }

\* Error texts of a failed ffprobe: Str(what, len) is the first len characters
\* of the message `what`.
ProbeErrors == { Str("Command failed: ffprobe", 40), Str("Command failed: ffprobe", 620) }

\* A substring that forgets the upper index.
substringWhole(text, to) == text

\* A substring whose upper index is inclusive.
substringInclusive(text, to) == Str(text.str, Min(text.len, to + 1))

\* String.prototype.substring(0, to)
substring(text, to) == Str(text.str, Min(text.len, to))

----------------------------------------------------------------------------
(* State *)

VARIABLES
  videoModel,   \* the videos collection: the record of VideoId, or Null
  videoQueue,   \* jobs waiting in the 'video-processing' queue
  deliveries,   \* how many times the job was handed to the processor
  job,          \* handleVideoProcessing: position and locals (video: the
                \* document of line 33; error: what the catch block caught)
  conv,         \* convertVideoToFormat invocations, one per caller
  download,     \* VideosController.download: position and locals
  del,          \* VideosService.delete: position and locals (video: the
                \* document of line 136; unlinkFailed: the unlinks that threw)
  files,        \* paths present on disk
  now,          \* Date.now() as last observed
  events,       \* notifications handed to the gateway
  probeFailed,  \* history: a metadata probe of the video has failed
  probeOk,      \* history: a metadata probe of the video has succeeded
  metaReady,    \* history: the record was PROCESSING with duration,
                \* resolution and size all set
  creates,      \* createVideo calls in progress: position and locals
  videoDocs,    \* the videos collection as the uploads see it: _id -> document
  clients,      \* the gateway's sockets: handleConnection's position, the
                \* handshake, client.data.userEmail, and whether it is open
  userSockets,  \* VideosGateway.userSockets: userEmail -> set of socket ids
  inbox,        \* what each socket has received: the notify call's number
                \* and its message
  notified,     \* the messages of the notify calls the gateway has received
  requests      \* the get, download and delete requests of SpecAccess: who
                \* asked, and whether findOne admitted the request

pipelineVars == <<videoModel, deliveries, job, conv, download, del, files, now, events,
                  probeFailed, probeOk, metaReady, requests>>
uploadVars == <<creates, videoDocs>>
gatewayVars == <<clients, userSockets, inbox, notified>>

vars == <<videoModel, videoQueue, deliveries, job, conv, download, del, files,
          now, events, probeFailed, probeOk, metaReady, requests, uploadVars, gatewayVars>>

\* Callers of convertVideoToFormat: the fan-out task of each format, and the
\* download request.
JobCallers == {<<"job", f>> : f \in FormatValues}
DownloadCaller == <<"download", "d1">>
Callers == JobCallers \cup {DownloadCaller}

\* input: the raw file was there at the launch; transcoded: ffmpeg exited 0;
\* index, version: what addConvertedFormat read (the found entry, __v).
\* command: the watermark text and codecs of the ffmpeg command.
IdleConv == [pc |-> "idle", format |-> "", path |-> Null, input |-> FALSE,
             transcoded |-> FALSE, index |-> 0, version |-> 0, command |-> Null]

IdleCreate == [pc |-> "idle", userEmail |-> "", filename |-> "", existingVideo |-> Null]

\* A socket that has not connected yet.
NewClient == [pc |-> "idle", handshake |-> Null, userEmail |-> "", open |-> FALSE]

Init ==
  /\ creates = [c \in CreateCalls |-> IdleCreate]
  /\ videoDocs = <<>>
  /\ clients = [s \in Sockets |-> NewClient]
  /\ userSockets = <<>>
  /\ inbox = [s \in Sockets |-> {}]
  /\ notified = <<>>
  /\ requests = <<>>
  /\ videoModel = Null
  /\ videoQueue = <<>>
  /\ deliveries = 0
  /\ job = [pc |-> "idle", video |-> Null, meta |-> Null, error |-> Null]
  /\ conv = [c \in Callers |-> IdleConv]
  /\ download = [pc |-> "idle", format |-> "", result |-> Null]
  /\ del = [pc |-> "idle", video |-> Null, unlinkFailed |-> {}]
  /\ files = {}
  /\ now = 0
  /\ events = {}
  /\ probeFailed = FALSE
  /\ probeOk = FALSE
  /\ metaReady = FALSE

----------------------------------------------------------------------------
(* Video schema and VideosService *)

\* new this.videoModel({user_email, filename, status: UPLOADED, raw_file_path})
\* with the schema's defaults; v is Mongoose's version key __v.
NewVideo(userEmail, filename, rawFilePath) ==
  [ user_email |-> userEmail,
    filename |-> filename,
    status |-> UPLOADED,
    raw_file_path |-> rawFilePath,
    output_file_path |-> Null,
    duration |-> Null,
    resolution |-> Null,
    size |-> Null,
    output_format |-> Null,
    error_message |-> Null,
    converted_formats |-> <<>>,
    v |-> 0 ]

\* JavaScript truthiness: null, 0, NaN and the empty string are falsy.
Truthy(x) == x \notin {Null, Num(0), NaN} /\ ("len" \in DOMAIN x => x.len # 0)

\* parseFloat on ffprobe's duration string, in tenths of a second.
parseFloat(s) ==
  CASE s.str = "12.5" -> Num(125)
    [] s.str = "0.000000" -> Num(0)
    [] OTHER -> NaN

DataFields == {"output_file_path", "duration", "resolution", "size",
               "output_format", "error_message"}

\* updateVideoStatus, lines 191-199: the $set document.  `data` is a function
\* from the provided field names to their values.
updateData(status, data) ==
  LET given == {k \in DOMAIN data \cap DataFields : Truthy(data[k])}
  IN  [k \in given \cup {"status"} |-> IF k = "status" THEN status ELSE data[k]]

\* An update with upsert: it creates the document when there is none.
findByIdAndUpsert(doc, update) ==
  LET old == IF doc = Null THEN NewVideo("", "", Null) ELSE doc
  IN  [k \in DOMAIN old |-> IF k \in DOMAIN update THEN update[k] ELSE old[k]]

\* An update that writes null into every field its $set document omits.
findByIdAndOverwrite(doc, update) ==
  IF doc = Null THEN Null
  ELSE [k \in DOMAIN doc |->
          IF k \in DOMAIN update THEN update[k]
          ELSE IF k \in DataFields THEN Null ELSE doc[k]]

\* findByIdAndUpdate(..., {new: true}): the updated document, Null when there
\* is none (no upsert).
findByIdAndUpdate(doc, update) ==
  IF doc = Null THEN Null
  ELSE [k \in DOMAIN doc |-> IF k \in DOMAIN update THEN update[k] ELSE doc[k]]

updateVideoStatus(doc, status, data) == findByIdAndUpdate(doc, updateData(status, data))

NoData == [k \in {} |-> Null]

\* converted_formats.find((cf) => cf.format === format), as the index of the
\* first match, 0 when there is none.
FindFormat(list, format) ==
  LET hits == {i \in 1..Len(list) : list[i].format = format}
  IN  IF hits = {} THEN 0 ELSE CHOOSE i \in hits : \A j \in hits : i <= j

\* A save that writes a whole document back: every field other than the list
\* gets the value of a copy loaded earlier (the one the job's findOne read).
saveConvertedFormatWhole(doc, index, version, format, filePath) ==
  IF doc = Null THEN Null
  ELSE LET stale == IF job.video = Null THEN doc ELSE job.video
       IN  [stale EXCEPT
              !.converted_formats =
                 Append(doc.converted_formats, [format |-> format, file_path |-> filePath]),
              !.v = doc.v + 1]

\* A save that pushes an entry whether or not the format has one.
saveConvertedFormatPush(doc, index, version, format, filePath) ==
  IF doc = Null THEN Null
  ELSE [doc EXCEPT
          !.converted_formats = Append(@, [format |-> format, file_path |-> filePath]),
          !.v = @ + 1]

\* A save that assigns the list instead of pushing to it.
saveConvertedFormatAssign(doc, index, version, format, filePath) ==
  IF doc = Null THEN Null
  ELSE IF index = 0
    THEN [doc EXCEPT
            !.converted_formats = <<[format |-> format, file_path |-> filePath]>>,
            !.v = @ + 1]
  ELSE IF doc.v = version /\ index <= Len(doc.converted_formats)
    THEN [doc EXCEPT !.converted_formats[index].file_path = filePath]
  ELSE Null

\* video.save() of addConvertedFormat on the stored document `doc`, for a
\* document read at `version` in which the entry was found at `index`
\* (0: pushed).  Null when the save throws (no document, or VersionError).
saveConvertedFormat(doc, index, version, format, filePath) ==
  IF doc = Null THEN Null
  ELSE IF index = 0
    THEN [doc EXCEPT
            !.converted_formats = Append(@, [format |-> format, file_path |-> filePath]),
            !.v = @ + 1]
  ELSE IF doc.v = version /\ index <= Len(doc.converted_formats)
    THEN [doc EXCEPT !.converted_formats[index].file_path = filePath]
  ELSE Null

\* A lookup that never finds a stored file.
noConvertedFormatPath(doc, format) == Null

\* getConvertedFormatPath: convertedFormat?.file_path || null
getConvertedFormatPath(doc, format) ==
  IF doc = Null THEN Null
  ELSE LET i == FindFormat(doc.converted_formats, format)
       IN  IF i = 0 THEN Null ELSE doc.converted_formats[i].file_path

----------------------------------------------------------------------------
(* VideosGateway *)

\* notifyVideoProcessed(userEmail, videoId, video): a 'video-processed' event
\* with the record snapshot; delivery records which delivery of the job was
\* running at the moment of emission, probed the metadata that delivery's
\* probe had just reported (Null once it is persisted).
notifyVideoProcessed(userEmail, videoId, video) ==
  [type |-> "video-processed", to |-> userEmail, videoId |-> videoId, video |-> video,
   delivery |-> deliveries, probed |-> job.meta]

\* notifyFormatConverted(userEmail, videoId, format, filePath); afterProbeFailure
\* and metaReady record the history at the moment of emission.
notifyFormatConverted(userEmail, videoId, format, filePath) ==
  [type |-> "format-converted", to |-> userEmail, videoId |-> videoId,
   format |-> format, filePath |-> filePath,
   afterProbeFailure |-> probeFailed, metaReady |-> metaReady]

\* The record is PROCESSING with duration, resolution and size all set.
HasMetadata(doc) ==
  /\ doc # Null
  /\ doc.status = PROCESSING
  /\ doc.duration # Null /\ doc.resolution # Null /\ doc.size # Null

\* A choice that passes over a credential that does not verify and takes the
\* next one present.
tokenOfFirstValid(handshake) ==
  IF handshake.cookie # Null /\ handshake.cookie.verifies THEN handshake.cookie
  ELSE IF handshake.auth # Null /\ handshake.auth.verifies THEN handshake.auth
  ELSE IF handshake.bearer # Null THEN handshake.bearer
  ELSE IF handshake.auth # Null THEN handshake.auth
  ELSE handshake.cookie

\* Lines 31-37: the first credential present, cookie before auth before
\* bearer, Null when there is none.
tokenOf(handshake) ==
  IF handshake.cookie # Null THEN handshake.cookie
  ELSE IF handshake.auth # Null THEN handshake.auth
  ELSE handshake.bearer

\* A check that decodes the token without verifying it.
decode(token) == [email |-> token.email]

\* jwtService.verifyAsync(token): the payload, Null when it throws.
verifyAsync(token) == IF token.verifies THEN [email |-> token.email] ELSE Null

\* Lines 56-59: userSockets.get(userEmail).add(client.id), after creating the
\* user's set when there is none.
addSocket(registry, userEmail, id) ==
  [u \in DOMAIN registry \cup {userEmail} |->
     IF u = userEmail
       THEN (IF u \in DOMAIN registry THEN registry[u] ELSE {}) \cup {id}
       ELSE registry[u]]

\* A disconnect that leaves the user's emptied set in the registry.
handleDisconnectKeepsEntry(registry, userEmail, id) ==
  IF userEmail # "" /\ userEmail \in DOMAIN registry
    THEN [u \in DOMAIN registry |-> IF u = userEmail THEN registry[u] \ {id} ELSE registry[u]]
    ELSE registry

\* handleDisconnect, lines 69-79, for a client whose data.userEmail is
\* userEmail ("" when never set).
handleDisconnect(registry, userEmail, id) ==
  IF userEmail # "" /\ userEmail \in DOMAIN registry
    THEN IF registry[userEmail] \ {id} = {}
           THEN [u \in DOMAIN registry \ {userEmail} |-> registry[u]]
           ELSE [u \in DOMAIN registry |->
                   IF u = userEmail THEN registry[u] \ {id} ELSE registry[u]]
    ELSE registry

\* client.disconnect() by the server: the socket closes and, when it was open,
\* its 'disconnect' event runs handleDisconnect.
serverDisconnect(s) ==
  IF clients[s].open
    THEN handleDisconnect(userSockets, clients[s].userEmail, s)
    ELSE userSockets

\* handleConnection up to `await verifyAsync(token)`: without a token the
\* client is disconnected.
HandleConnection(s, handshake) ==
  /\ clients[s].pc = "idle"
  /\ IF tokenOf(handshake) = Null
       THEN /\ clients' = [clients EXCEPT ![s] =
                 [pc |-> "rejected", handshake |-> handshake, userEmail |-> "", open |-> FALSE]]
            /\ UNCHANGED userSockets
       ELSE /\ clients' = [clients EXCEPT ![s] =
                 [pc |-> "verifyAsync", handshake |-> handshake, userEmail |-> "", open |-> TRUE]]
            /\ UNCHANGED userSockets
  /\ UNCHANGED <<inbox, notified>>
  /\ UNCHANGED <<videoQueue, pipelineVars, uploadVars>>

\* Lines 45-66: verifyAsync settles.  A throw, or a payload without email,
\* disconnects the client; otherwise the socket is stored under the email.
Verified(s) ==
  /\ clients[s].pc = "verifyAsync"
  /\ LET payload == verifyAsync(tokenOf(clients[s].handshake))
     IN  IF payload = Null \/ payload.email = ""
           THEN /\ userSockets' = serverDisconnect(s)
                /\ clients' = [clients EXCEPT ![s].pc = "rejected", ![s].open = FALSE]
           ELSE /\ userSockets' = addSocket(userSockets, payload.email, s)
                /\ clients' = [clients EXCEPT ![s].pc = "connected",
                                              ![s].userEmail = payload.email]
  /\ UNCHANGED <<inbox, notified>>
  /\ UNCHANGED <<videoQueue, pipelineVars, uploadVars>>

\* The client goes away: the socket closes and handleDisconnect runs.
Disconnect(s) ==
  /\ clients[s].open
  /\ userSockets' = handleDisconnect(userSockets, clients[s].userEmail, s)
  /\ clients' = [clients EXCEPT ![s].open = FALSE]
  /\ UNCHANGED <<inbox, notified>>
  /\ UNCHANGED <<videoQueue, pipelineVars, uploadVars>>

\* A broadcast to every socket of the registry.
allSockets(registry, userEmail) == UNION {registry[u] : u \in DOMAIN registry}

\* Lines 86 and 103: this.userSockets.get(userEmail), no socket when the user
\* has no entry.
socketsOf(registry, userEmail) ==
  IF userEmail \in DOMAIN registry THEN registry[userEmail] ELSE {}

\* sockets.forEach((socketId) => this.server.to(socketId).emit(...)): the
\* message reaches the socket of each id, if that socket is still open.
emit(sockets, message) ==
  [s \in Sockets |->
     IF s \in sockets /\ clients[s].open
       THEN inbox[s] \cup {[call |-> Len(notified) + 1, message |-> message]}
       ELSE inbox[s]]

\* A notify call of the gateway with `message` for userEmail.
notify(userEmail, message) ==
  /\ Len(notified) < NumNotifications
  /\ notified' = Append(notified, message)
  /\ inbox' = emit(socketsOf(userSockets, userEmail), message)
  /\ UNCHANGED <<clients, userSockets>>
  /\ UNCHANGED <<videoQueue, pipelineVars, uploadVars>>

\* The processor calls notifyVideoProcessed(video.user_email, videoId, video).
NotifyVideoProcessed(userEmail, status) ==
  notify(userEmail, [type |-> "video-processed", to |-> userEmail,
                     videoId |-> VideoId, status |-> status])

\* convertVideoToFormat calls notifyFormatConverted(userEmail, videoId, format,
\* filePath).
NotifyFormatConverted(userEmail, format) ==
  notify(userEmail, [type |-> "format-converted", to |-> userEmail,
                     videoId |-> VideoId, format |-> format])

----------------------------------------------------------------------------
(* Upload: VideosService.createVideo *)

CreateVideo ==
  /\ videoModel = Null /\ videoQueue = <<>> /\ deliveries = 0
  /\ videoModel' = NewVideo(Owner, "clip.mp4", RawFilePath)
  /\ files' = files \cup {RawFilePath}
  /\ videoQueue' = Append(videoQueue, [videoId |-> VideoId, rawFilePath |-> RawFilePath])
  /\ UNCHANGED <<deliveries, job, conv, download, del, now, events,
                 probeFailed, probeOk, metaReady>>
  /\ UNCHANGED <<uploadVars, gatewayVars, requests>>

\* createVideo step by step, over a collection that holds several records.
\* The _id of the record a call creates is the call's number; multer stores
\* each uploaded file under a name of its own.
rawPathOf(c) == [dir |-> "uploads/raw", name |-> c]

\* A duplicate check that looks at the filename only.
findOneByFilenameOnly(docs, userEmail, filename) ==
  LET hits == {i \in DOMAIN docs : docs[i].filename = filename}
  IN  IF hits = {} THEN Null ELSE docs[CHOOSE i \in hits : \A j \in hits : i <= j]

\* Lines 32-35: videoModel.findOne({user_email, filename}), Null when no
\* document matches.
findOneByFilename(docs, userEmail, filename) ==
  LET hits == {i \in DOMAIN docs :
                 docs[i].user_email = userEmail /\ docs[i].filename = filename}
  IN  IF hits = {} THEN Null ELSE docs[CHOOSE i \in hits : \A j \in hits : i <= j]

\* Lines 30-41: the duplicate check; BadRequestException when a record of the
\* user has the filename.
CreateFindOne(c, userEmail, filename) ==
  /\ creates[c].pc = "idle"
  /\ LET existingVideo == findOneByFilename(videoDocs, userEmail, filename)
     IN  creates' = [creates EXCEPT ![c] =
           [pc |-> IF existingVideo # Null THEN "BadRequest" ELSE "save",
            userEmail |-> userEmail, filename |-> filename,
            existingVideo |-> existingVideo]]
  /\ UNCHANGED <<videoDocs, videoQueue, pipelineVars, gatewayVars>>

\* Lines 43-50: new this.videoModel({...}); await video.save()
CreateSave(c) ==
  /\ creates[c].pc = "save"
  /\ videoDocs' = [i \in DOMAIN videoDocs \cup {c} |->
                     IF i = c
                       THEN NewVideo(creates[c].userEmail, creates[c].filename, rawPathOf(c))
                       ELSE videoDocs[i]]
  /\ creates' = [creates EXCEPT ![c].pc = "add"]
  /\ UNCHANGED <<videoQueue, pipelineVars, gatewayVars>>

\* Lines 52-58: videoQueue.add('process-video', {videoId, rawFilePath})
CreateAdd(c) ==
  /\ creates[c].pc = "add"
  /\ videoQueue' = Append(videoQueue, [videoId |-> c, rawFilePath |-> rawPathOf(c)])
  /\ creates' = [creates EXCEPT ![c].pc = "done"]
  /\ UNCHANGED <<videoDocs, pipelineVars, gatewayVars>>

\* An enqueue whose failure is swallowed.
CreateAddFailsSilently(c) ==
  /\ creates[c].pc = "add"
  /\ creates' = [creates EXCEPT ![c].pc = "done"]
  /\ UNCHANGED <<videoDocs, videoQueue, pipelineVars, gatewayVars>>

\* Lines 52-58: videoQueue.add rejects (the queue's store cannot be reached):
\* nothing is enqueued and createVideo, which has no catch, throws.
CreateAddFails(c) ==
  /\ creates[c].pc = "add"
  /\ creates' = [creates EXCEPT ![c].pc = "Error"]
  /\ UNCHANGED <<videoDocs, videoQueue, pipelineVars, gatewayVars>>

----------------------------------------------------------------------------
(* The conversion primitive: VideoProcessor.convertVideoToFormat *)

\* Date.now() at a call: the millisecond last observed, or a later one.
DateNow == IF now = 0 THEN {1} ELSE {now, now + 1}

\* Lines 150-152: processed-${Date.now()}.${outputFormat} under uploads/processed
outputFilePath(t, outputFormat) ==
  [dir |-> "uploads/processed", t |-> t, ext |-> outputFormat]

\* String.prototype.toUpperCase on the formats of the model
toUpperCase(format) ==
  CASE format \in {"mp4", "MP4"} -> "MP4"
    [] format = "webm" -> "WEBM"
    [] format = "avi" -> "AVI"
    [] format = "mov" -> "MOV"
    [] format = "mkv" -> "MKV"
    [] format = "flv" -> "FLV"
    [] format = "ts" -> "TS"

\* Lines 154-156: `Convert Video - Entvas - ${formatUpper}`
watermarkText(outputFormat) == <<"Convert Video - Entvas - ", toUpperCase(outputFormat)>>

\* A codec choice that knows the default only.
defaultCodecs(outputFormat) == [videoCodec |-> "libx264", audioCodec |-> "aac"]

\* Lines 165-197: the switch over outputFormat.toLowerCase()
codecs(outputFormat) ==
  CASE toLowerCase(outputFormat) = "mp4" -> [videoCodec |-> "libx264", audioCodec |-> "aac"]
    [] toLowerCase(outputFormat) = "webm" -> [videoCodec |-> "libvpx-vp9", audioCodec |-> "libopus"]
    [] toLowerCase(outputFormat) = "avi" -> [videoCodec |-> "libx264", audioCodec |-> "mp3"]
    [] toLowerCase(outputFormat) = "mov" -> [videoCodec |-> "libx264", audioCodec |-> "aac"]
    [] toLowerCase(outputFormat) = "mkv" -> [videoCodec |-> "libx264", audioCodec |-> "aac"]
    [] toLowerCase(outputFormat) = "flv" -> [videoCodec |-> "libx264", audioCodec |-> "mp3"]
    [] OTHER -> [videoCodec |-> "libx264", audioCodec |-> "aac"]

\* Line 201: what the ffmpeg command takes from the format: the drawtext text,
\* -c:v and -c:a.
ffmpegCommand(outputFormat) ==
  [text |-> watermarkText(outputFormat),
   videoCodec |-> codecs(outputFormat).videoCodec,
   audioCodec |-> codecs(outputFormat).audioCodec]

\* convertVideoToFormat up to `await execAsync(ffmpegCommand)`; input records
\* whether the raw file is there for ffmpeg to open.
launch(t, outputFormat) ==
  [pc |-> "exec", format |-> outputFormat, path |-> outputFilePath(t, outputFormat),
   input |-> RawFilePath \in files, transcoded |-> FALSE, index |-> 0, version |-> 0,
   command |-> ffmpegCommand(outputFormat)]

Settled == {"ok", "failed"}

\* The download request's response once its conversion has settled.
respond(c, result) ==
  IF c = DownloadCaller THEN [download EXCEPT !.pc = "done", !.result = result]
  ELSE download

\* ffmpeg exits 0 and has written the output file; addConvertedFormat reads the
\* record (findById) and prepares the change: NotFound when it is gone.
ExecOk(c) ==
  /\ conv[c].pc = "exec"
  /\ conv[c].input
  /\ files' = files \cup {conv[c].path}
  /\ IF videoModel = Null
       THEN /\ conv' = [conv EXCEPT ![c].pc = "failed", ![c].transcoded = TRUE]
            /\ download' = respond(c, Str("Video not found", 15))
       ELSE /\ conv' = [conv EXCEPT
                 ![c].pc = "save",
                 ![c].transcoded = TRUE,
                 ![c].index = FindFormat(videoModel.converted_formats, conv[c].format),
                 ![c].version = videoModel.v]
            /\ UNCHANGED download
  /\ UNCHANGED <<videoModel, videoQueue, deliveries, job, del, now, events,
                 probeFailed, probeOk, metaReady>>
  /\ UNCHANGED <<uploadVars, gatewayVars, requests>>

\* A failure that takes the unsettled sibling conversions of the fan-out down
\* with it.
ExecFailAbortsSiblings(c) ==
  /\ conv[c].pc = "exec"
  /\ conv' = [d \in Callers |->
               IF d = c \/ (c \in JobCallers /\ d \in JobCallers /\ conv[d].pc \notin Settled)
                 THEN [conv[d] EXCEPT !.pc = "failed", !.index = 0, !.version = 0]
                 ELSE conv[d]]
  /\ download' = respond(c, Str("Command failed: ffmpeg", 30))
  /\ UNCHANGED <<videoModel, videoQueue, deliveries, job, del, files, now, events,
                 probeFailed, probeOk, metaReady>>
  /\ UNCHANGED <<uploadVars, gatewayVars, requests>>

\* ffmpeg fails: execAsync rejects and convertVideoToFormat throws; in the
\* fan-out the task's catch (lines 102-108) logs it and the task settles.
ExecFail(c) ==
  /\ conv[c].pc = "exec"
  /\ conv' = [conv EXCEPT ![c].pc = "failed"]
  /\ download' = respond(c, Str("Command failed: ffmpeg", 30))
  /\ UNCHANGED <<videoModel, videoQueue, deliveries, job, del, files, now, events,
                 probeFailed, probeOk, metaReady>>
  /\ UNCHANGED <<uploadVars, gatewayVars, requests>>

\* addConvertedFormat, line 231: await video.save()
Save(c) ==
  /\ conv[c].pc = "save"
  /\ LET saved == saveConvertedFormat(videoModel, conv[c].index, conv[c].version,
                                      conv[c].format, conv[c].path)
     IN  IF saved = Null
           THEN /\ conv' = [conv EXCEPT ![c].pc = "failed", ![c].index = 0, ![c].version = 0]
                /\ download' = respond(c, Str("VersionError", 12))
                /\ UNCHANGED videoModel
           ELSE /\ conv' = [conv EXCEPT ![c].pc = "notify", ![c].index = 0, ![c].version = 0]
                /\ videoModel' = saved
                /\ UNCHANGED download
  /\ UNCHANGED <<videoQueue, deliveries, job, del, files, now, events,
                 probeFailed, probeOk, metaReady>>
  /\ UNCHANGED <<uploadVars, gatewayVars, requests>>

\* A return that skips the notification.
NotifyNoEvent(c) ==
  /\ conv[c].pc = "notify"
  /\ conv' = [conv EXCEPT ![c].pc = "ok"]
  /\ download' = respond(c, conv[c].path)
  /\ UNCHANGED <<videoModel, videoQueue, deliveries, job, del, files, now, events,
                 probeFailed, probeOk, metaReady>>
  /\ UNCHANGED <<uploadVars, gatewayVars, requests>>

\* Lines 216-224: notifyFormatConverted, return outputFilePath
Notify(c) ==
  /\ conv[c].pc = "notify"
  /\ events' = events \cup
       {notifyFormatConverted(IF c = DownloadCaller THEN Owner ELSE job.video.user_email,
                              VideoId, conv[c].format, conv[c].path)}
  /\ conv' = [conv EXCEPT ![c].pc = "ok"]
  /\ download' = respond(c, conv[c].path)
  /\ UNCHANGED <<videoModel, videoQueue, deliveries, job, del, files, now,
                 probeFailed, probeOk, metaReady>>
  /\ UNCHANGED <<uploadVars, gatewayVars, requests>>

----------------------------------------------------------------------------
(* The pipeline: VideoProcessor.handleVideoProcessing *)

\* The queue hands the job at its head to the idle processor.
Deliver ==
  /\ job.pc = "idle"
  /\ videoQueue # <<>>
  /\ videoQueue' = Tail(videoQueue)
  /\ deliveries' = 1
  /\ job' = [job EXCEPT !.pc = "findOne"]
  /\ UNCHANGED <<videoModel, conv, download, del, files, now, events,
                 probeFailed, probeOk, metaReady>>
  /\ UNCHANGED <<uploadVars, gatewayVars, requests>>

\* The job stalled (its lock expired while the handler ran): once the handler
\* has returned, the queue's next check for stalled jobs, milliseconds later
\* at the least, hands the same job to the processor again.
Redeliver ==
  /\ job.pc = "done"
  /\ deliveries < 1 + maxStalledCount
  /\ deliveries' = deliveries + 1
  /\ now' = now + 1
  /\ job' = [pc |-> "findOne", video |-> Null, meta |-> Null, error |-> Null]
  /\ conv' = [c \in Callers |-> IF c \in JobCallers THEN IdleConv ELSE conv[c]]
  /\ UNCHANGED <<videoModel, videoQueue, download, del, files, events,
                 probeFailed, probeOk, metaReady>>
  /\ UNCHANGED <<uploadVars, gatewayVars, requests>>

\* Line 33: findOne(videoId) throws NotFound when the record is gone.
FindOne ==
  /\ job.pc = "findOne"
  /\ job' = IF videoModel = Null
              THEN [job EXCEPT !.pc = "catch", !.error = Str("Video not found", 15)]
              ELSE [job EXCEPT !.pc = "setProcessing", !.video = videoModel]
  /\ UNCHANGED <<videoModel, videoQueue, deliveries, conv, download, del, files, now,
                 events, probeFailed, probeOk, metaReady>>
  /\ UNCHANGED <<uploadVars, gatewayVars, requests>>

\* Lines 37-40: updateVideoStatus(videoId, PROCESSING)
SetProcessing ==
  /\ job.pc = "setProcessing"
  /\ videoModel' = updateVideoStatus(videoModel, PROCESSING, NoData)
  /\ metaReady' = (metaReady \/ HasMetadata(videoModel'))
  /\ job' = [job EXCEPT !.pc = "probe"]
  /\ UNCHANGED <<videoQueue, deliveries, conv, download, del, files, now, events,
                 probeFailed, probeOk>>
  /\ UNCHANGED <<uploadVars, gatewayVars, requests>>

\* Lines 51-58: the metadata taken from ffprobe's output and fs.statSync.
metadataOf(out) ==
  [ duration |-> IF Truthy(out.duration) THEN parseFloat(out.duration) ELSE Null,
    resolution |-> IF Truthy(out.width) /\ Truthy(out.height)
                     THEN [w |-> out.width.num, h |-> out.height.num] ELSE Null,
    size |-> Num(RawFileSize) ]

\* Lines 43-58: ffprobe fails (always, when the raw file is gone), or prints
\* its JSON.
Probe ==
  /\ job.pc = "probe"
  /\ \/ \E e \in ProbeErrors :
          /\ job' = [job EXCEPT !.pc = "catch", !.error = e]
          /\ probeFailed' = TRUE
          /\ UNCHANGED probeOk
     \/ \E out \in ProbeOutputs :
          /\ RawFilePath \in files
          /\ job' = [job EXCEPT !.pc = "saveMetadata", !.meta = metadataOf(out)]
          /\ probeOk' = TRUE
          /\ UNCHANGED probeFailed
  /\ UNCHANGED <<videoModel, videoQueue, deliveries, conv, download, del, files, now,
                 events, metaReady>>
  /\ UNCHANGED <<uploadVars, gatewayVars, requests>>

\* Lines 90-98: formats.map(async (format) => convertVideoToFormat(...)) starts
\* one conversion per format, all of them before the first await of any.
fanOut(t) ==
  [c \in Callers |-> IF c \in JobCallers THEN launch(t, c[2]) ELSE conv[c]]

\* A metadata step that forgets its notification.
SaveMetadataSilent ==
  /\ job.pc = "saveMetadata"
  /\ videoModel' = updateVideoStatus(videoModel, PROCESSING, job.meta)
  /\ metaReady' = (metaReady \/ HasMetadata(videoModel'))
  /\ \E t \in DateNow :
       /\ now' = t
       /\ conv' = fanOut(t)
  /\ job' = [job EXCEPT !.pc = "fanout", !.meta = Null]
  /\ UNCHANGED <<videoQueue, deliveries, download, del, files, events, probeFailed, probeOk>>
  /\ UNCHANGED <<uploadVars, gatewayVars, requests>>

\* Lines 60-98: persist the metadata, notify, and start the fan-out.
SaveMetadata ==
  /\ job.pc = "saveMetadata"
  /\ LET updatedVideo == updateVideoStatus(videoModel, PROCESSING, job.meta)
     IN  /\ videoModel' = updatedVideo
         /\ events' = IF updatedVideo # Null
                        THEN events \cup {notifyVideoProcessed(job.video.user_email, VideoId, updatedVideo)}
                        ELSE events
  /\ metaReady' = (metaReady \/ HasMetadata(videoModel'))
  /\ \E t \in DateNow :
       /\ now' = t
       /\ conv' = fanOut(t)
  /\ job' = [job EXCEPT !.pc = "fanout", !.meta = Null]
  /\ UNCHANGED <<videoQueue, deliveries, download, del, files, probeFailed, probeOk>>
  /\ UNCHANGED <<uploadVars, gatewayVars, requests>>

\* A fan-out that is not awaited.
notAwaited(tasks) == TRUE

\* A join that resumes at the first task to settle.
anySettled(tasks) == \E c \in tasks : conv[c].pc \in Settled

\* Promise.allSettled over the fan-out: every task has settled.
allSettled(tasks) == \A c \in tasks : conv[c].pc \in Settled

\* Lines 115-118: updateVideoStatus(videoId, COMPLETED), whatever the outcomes
\* of the conversions.
completedUpdate(doc) == updateVideoStatus(doc, COMPLETED, NoData)

\* Lines 112-127: after the join, COMPLETED and the final notification.
Complete ==
  /\ job.pc = "fanout"
  /\ allSettled(JobCallers)
  /\ LET finalVideo == completedUpdate(videoModel)
     IN  /\ videoModel' = finalVideo
         /\ events' = IF finalVideo # Null
                        THEN events \cup {notifyVideoProcessed(job.video.user_email, VideoId, finalVideo)}
                        ELSE events
  /\ job' = [job EXCEPT !.pc = "done"]
  /\ UNCHANGED <<videoQueue, deliveries, conv, download, del, files, now,
                 probeFailed, probeOk, metaReady>>
  /\ UNCHANGED <<uploadVars, gatewayVars, requests>>

\* Lines 132-134: updateVideoStatus(videoId, FAILED, {error_message:
\* errorMessage.substring(0, 500)})
failedUpdate(doc, errorMessage) ==
  updateVideoStatus(doc, FAILED, [error_message |-> substring(errorMessage, 500)])

\* A catch block that only logs.
CatchLogsOnly ==
  /\ job.pc = "catch"
  /\ job' = [job EXCEPT !.pc = "done"]
  /\ UNCHANGED <<videoModel, videoQueue, deliveries, conv, download, del, files, now, events,
                 probeFailed, probeOk, metaReady>>
  /\ UNCHANGED <<uploadVars, gatewayVars, requests>>

\* Lines 128-135: the catch block.
Catch ==
  /\ job.pc = "catch"
  /\ videoModel' = failedUpdate(videoModel, job.error)
  /\ job' = [job EXCEPT !.pc = "done"]
  /\ UNCHANGED <<videoQueue, deliveries, conv, download, del, files, now, events,
                 probeFailed, probeOk, metaReady>>
  /\ UNCHANGED <<uploadVars, gatewayVars, requests>>

----------------------------------------------------------------------------
(* VideosController.download with a format *)

\* Line 127: findOne(id, user.email); from here on the controller uses
\* format.toLowerCase().
DownloadFindOne(format) ==
  /\ download.pc = "idle"
  /\ videoModel # Null
  /\ download' = [download EXCEPT !.pc = "getConvertedFormatPath",
                                  !.format = toLowerCase(format)]
  /\ UNCHANGED <<videoModel, videoQueue, deliveries, job, conv, del, files, now, events,
                 probeFailed, probeOk, metaReady>>
  /\ UNCHANGED <<uploadVars, gatewayVars, requests>>

\* Lines 133-151: serve the stored file, or convert on demand.
DownloadConvert ==
  /\ download.pc = "getConvertedFormatPath"
  /\ LET convertedPath == getConvertedFormatPath(videoModel, download.format)
     IN  IF convertedPath # Null /\ convertedPath \in files
           THEN /\ download' = [download EXCEPT !.pc = "done", !.result = convertedPath]
                /\ UNCHANGED <<conv, now>>
           ELSE /\ download' = [download EXCEPT !.pc = "converting"]
                /\ \E t \in DateNow :
                     /\ now' = t
                     /\ conv' = [conv EXCEPT ![DownloadCaller] = launch(t, download.format)]
  /\ UNCHANGED <<videoModel, videoQueue, deliveries, job, del, files, events,
                 probeFailed, probeOk, metaReady>>
  /\ UNCHANGED <<uploadVars, gatewayVars, requests>>

----------------------------------------------------------------------------
(* VideosService.delete *)

\* A lookup that leaves the user out of the query.
findOneAnyUser(doc, userEmail) == doc

\* findOne(id, userEmail), lines 67-80: the document, NotFound (Null here)
\* when there is none or it is another user's.
findOne(doc, userEmail) ==
  IF doc = Null \/ (userEmail # "" /\ doc.user_email # userEmail) THEN Null ELSE doc

\* A delete that forgets the converted files.
rawFileOnly(doc) == {doc.raw_file_path}

\* The files delete goes through: the raw file and the file of every entry of
\* converted_formats (output_file_path is never set).
backingFiles(doc) ==
  {doc.raw_file_path} \cup
  {doc.converted_formats[i].file_path : i \in 1..Len(doc.converted_formats)}

\* A delete that gives up at the first unlink that fails.
DeleteFilesStopsAtFailure(unlinkMayFail) ==
  /\ del.pc = "idle"
  /\ findOne(videoModel, Owner) # Null
  /\ \E unlinkFails \in SUBSET (IF unlinkMayFail THEN backingFiles(videoModel) \cap files ELSE {}) :
       /\ files' = IF unlinkFails = {} THEN files \ backingFiles(videoModel) ELSE files
       /\ del' = [pc |-> IF unlinkFails = {} THEN "deleteOne" ELSE "failed",
                  video |-> videoModel, unlinkFailed |-> unlinkFails]
  /\ UNCHANGED <<videoModel, videoQueue, deliveries, job, conv, download, now, events,
                 probeFailed, probeOk, metaReady>>
  /\ UNCHANGED <<uploadVars, gatewayVars, requests>>

\* Lines 136-180: findOne, then unlinkSync of the raw file and of every
\* converted file that exists, each in its own try/catch: an unlink that
\* throws is logged and the loop goes on.  unlinkFails are the files whose
\* unlink throws.
DeleteFiles(unlinkMayFail) ==
  /\ del.pc = "idle"
  /\ findOne(videoModel, Owner) # Null
  /\ \E unlinkFails \in SUBSET (IF unlinkMayFail THEN backingFiles(videoModel) \cap files ELSE {}) :
       /\ files' = files \ (backingFiles(videoModel) \ unlinkFails)
       /\ del' = [pc |-> "deleteOne", video |-> videoModel, unlinkFailed |-> unlinkFails]
  /\ UNCHANGED <<videoModel, videoQueue, deliveries, job, conv, download, now, events,
                 probeFailed, probeOk, metaReady>>
  /\ UNCHANGED <<uploadVars, gatewayVars, requests>>

\* Line 182: deleteOne({_id: id})
DeleteOne ==
  /\ del.pc = "deleteOne"
  /\ videoModel' = Null
  /\ del' = [del EXCEPT !.pc = "done"]
  /\ UNCHANGED <<videoQueue, deliveries, job, conv, download, files, now, events,
                 probeFailed, probeOk, metaReady>>
  /\ UNCHANGED <<uploadVars, gatewayVars, requests>>

----------------------------------------------------------------------------
(* Requests of any user: VideosController.findOne, download, delete *)

\* The request's entry in the log.
logged(op, userEmail, result) ==
  Append(requests, [op |-> op, user |-> userEmail, result |-> result])

\* GET /videos/:id, controller lines 115-118: findOne(id, user.email)
Get(userEmail) ==
  /\ Len(requests) < NumRequests
  /\ requests' = logged("get", userEmail,
                        IF findOne(videoModel, userEmail) = Null THEN "NotFound" ELSE "ok")
  /\ UNCHANGED <<videoModel, videoQueue, deliveries, job, conv, download, del, files, now,
                 events, probeFailed, probeOk, metaReady>>
  /\ UNCHANGED <<uploadVars, gatewayVars>>

\* GET /videos/:id/download?format=..., controller line 127: NotFound leaves
\* the handler; otherwise it goes on as DownloadFindOne does.
DownloadAs(userEmail, format) ==
  /\ Len(requests) < NumRequests
  /\ IF findOne(videoModel, userEmail) = Null
       THEN /\ requests' = logged("download", userEmail, "NotFound")
            /\ UNCHANGED download
       ELSE /\ download.pc = "idle"
            /\ requests' = logged("download", userEmail, "ok")
            /\ download' = [download EXCEPT !.pc = "getConvertedFormatPath",
                                            !.format = toLowerCase(format)]
  /\ UNCHANGED <<videoModel, videoQueue, deliveries, job, conv, del, files, now, events,
                 probeFailed, probeOk, metaReady>>
  /\ UNCHANGED <<uploadVars, gatewayVars>>

\* DELETE /videos/:id, service line 136: NotFound leaves the handler;
\* otherwise the files are unlinked as DeleteFiles does.
DeleteAs(userEmail) ==
  /\ Len(requests) < NumRequests
  /\ LET video == findOne(videoModel, userEmail)
     IN  IF video = Null
           THEN /\ requests' = logged("delete", userEmail, "NotFound")
                /\ UNCHANGED <<del, files>>
           ELSE /\ del.pc = "idle"
                /\ requests' = logged("delete", userEmail, "ok")
                /\ files' = files \ backingFiles(video)
                /\ del' = [pc |-> "deleteOne", video |-> video, unlinkFailed |-> {}]
  /\ UNCHANGED <<videoModel, videoQueue, deliveries, job, conv, download, now, events,
                 probeFailed, probeOk, metaReady>>
  /\ UNCHANGED <<uploadVars, gatewayVars>>

----------------------------------------------------------------------------
(* Specification *)

Next ==
  \/ CreateVideo
  \/ Deliver
  \/ Redeliver
  \/ FindOne
  \/ SetProcessing
  \/ Probe
  \/ SaveMetadata
  \/ \E c \in Callers : ExecOk(c)
  \/ \E c \in Callers : ExecFail(c)
  \/ \E c \in Callers : Save(c)
  \/ \E c \in Callers : Notify(c)
  \/ Complete
  \/ Catch
  \/ \E f \in DownloadFormats : DownloadFindOne(f)
  \/ DownloadConvert
  \/ DeleteFiles(FALSE)
  \/ DeleteOne

Spec == Init /\ [][Next]_vars

\* The pipeline alone: uploads, job deliveries and deletes, no download request.
NextPipeline ==
  \/ CreateVideo
  \/ Deliver
  \/ Redeliver
  \/ FindOne
  \/ SetProcessing
  \/ Probe
  \/ SaveMetadata
  \/ \E c \in JobCallers : ExecOk(c)
  \/ \E c \in JobCallers : ExecFail(c)
  \/ \E c \in JobCallers : Save(c)
  \/ \E c \in JobCallers : Notify(c)
  \/ Complete
  \/ Catch
  \/ DeleteFiles(FALSE)
  \/ DeleteOne

SpecPipeline == Init /\ [][NextPipeline]_vars

\* One delivery of the job and a delete on a disk whose unlinks may fail.
NextDelete ==
  \/ CreateVideo
  \/ Deliver
  \/ FindOne
  \/ SetProcessing
  \/ Probe
  \/ SaveMetadata
  \/ \E c \in JobCallers : ExecOk(c)
  \/ \E c \in JobCallers : ExecFail(c)
  \/ \E c \in JobCallers : Save(c)
  \/ \E c \in JobCallers : Notify(c)
  \/ Complete
  \/ Catch
  \/ DeleteFiles(TRUE)
  \/ DeleteOne

SpecDelete == Init /\ [][NextDelete]_vars

\* One delivery of the job, a delete, and a download request for any of
\* RequestedFormats.
NextDownload ==
  \/ CreateVideo
  \/ Deliver
  \/ FindOne
  \/ SetProcessing
  \/ Probe
  \/ SaveMetadata
  \/ \E c \in Callers : ExecOk(c)
  \/ \E c \in Callers : ExecFail(c)
  \/ \E c \in Callers : Save(c)
  \/ \E c \in Callers : Notify(c)
  \/ Complete
  \/ Catch
  \/ \E f \in RequestedFormats : DownloadFindOne(f)
  \/ DownloadConvert
  \/ DeleteFiles(FALSE)
  \/ DeleteOne

SpecDownload == Init /\ [][NextDownload]_vars

\* The uploads alone: concurrent createVideo calls.
NextUpload ==
  \/ \E c \in CreateCalls, u \in Users, f \in Filenames : CreateFindOne(c, u, f)
  \/ \E c \in CreateCalls : CreateSave(c)
  \/ \E c \in CreateCalls : CreateAdd(c)
  \/ \E c \in CreateCalls : CreateAddFails(c)

SpecUpload == Init /\ [][NextUpload]_vars

\* The gateway alone: sockets connect and disconnect.
NextGateway ==
  \/ \E s \in Sockets, h \in Handshakes : HandleConnection(s, h)
  \/ \E s \in Sockets : Verified(s)
  \/ \E s \in Sockets : Disconnect(s)
  \/ \E u \in Users : NotifyVideoProcessed(u, COMPLETED)
  \/ \E u \in Users : NotifyFormatConverted(u, "mp4")

SpecGateway == Init /\ [][NextGateway]_vars

\* Requests of any user on the one video: get, download with its on-demand
\* conversion, and delete.
NextAccess ==
  \/ CreateVideo
  \/ \E u \in Users : Get(u)
  \/ \E u \in Users, f \in DownloadFormats : DownloadAs(u, f)
  \/ DownloadConvert
  \/ ExecOk(DownloadCaller)
  \/ ExecFail(DownloadCaller)
  \/ Save(DownloadCaller)
  \/ Notify(DownloadCaller)
  \/ \E u \in Users : DeleteAs(u)
  \/ DeleteOne

SpecAccess == Init /\ [][NextAccess]_vars

\* The pipeline on a record that is never deleted.
NextLive ==
  \/ CreateVideo
  \/ Deliver
  \/ Redeliver
  \/ FindOne
  \/ SetProcessing
  \/ Probe
  \/ SaveMetadata
  \/ \E c \in JobCallers : ExecOk(c)
  \/ \E c \in JobCallers : ExecFail(c)
  \/ \E c \in JobCallers : Save(c)
  \/ \E c \in JobCallers : Notify(c)
  \/ Complete
  \/ Catch

\* Every await of the job's handler settles: the database calls return, and
\* ffprobe and each ffmpeg of the fan-out exit, with success or with failure.
Fairness ==
  /\ WF_vars(FindOne)
  /\ WF_vars(SetProcessing)
  /\ WF_vars(Probe)
  /\ WF_vars(SaveMetadata)
  /\ \A c \in JobCallers : WF_vars(ExecOk(c) \/ ExecFail(c))
  /\ \A c \in JobCallers : WF_vars(Save(c))
  /\ \A c \in JobCallers : WF_vars(Notify(c))
  /\ WF_vars(Complete)
  /\ WF_vars(Catch)

SpecLive == Init /\ [][NextLive]_vars /\ Fairness

----------------------------------------------------------------------------
(* Claims *)

HasEntry(format) == FindFormat(videoModel.converted_formats, format) # 0

FormatEvents == {e \in events : e.type = "format-converted"}
StatusEvents == {e \in events : e.type = "video-processed"}

Running == {"exec", "save", "notify"}

\* The current run of the job ended through the catch block / ran to the end.
JobFailed == job.pc = "done" /\ job.error # Null
JobCompleted == job.pc = "done" /\ job.error = Null

\* C1: in every reachable state a record's converted_formats holds at most one
\* entry per format identifier.
C1_AtMostOneEntryPerFormat ==
  videoModel # Null =>
    \A i, j \in 1..Len(videoModel.converted_formats) :
      videoModel.converted_formats[i].format = videoModel.converted_formats[j].format
        => i = j

\* C2: no concurrent format completion is lost: whenever the save of an
\* addConvertedFormat call has returned, the record (while it exists) holds an
\* entry for that call's format, whatever other calls for other formats did
\* between its read and its save.
C2_NoLostFormat ==
  videoModel # Null =>
    \A c \in Callers : conv[c].pc \in {"notify", "ok"} => HasEntry(conv[c].format)

\* C2 witness: one call has returned and its entry is there, while another
\* call for a different format still holds the record it read before that
\* save.
C2_Witness ==
  /\ videoModel # Null
  /\ \E c1, c2 \in JobCallers :
       /\ conv[c1].format # conv[c2].format
       /\ conv[c1].pc = "ok" /\ HasEntry(conv[c1].format)
       /\ conv[c2].pc = "save" /\ conv[c2].index = 0
       /\ conv[c2].version < videoModel.v

StatusEdges ==
  { <<UPLOADED, PROCESSING>>, <<PROCESSING, COMPLETED>>,
    <<PROCESSING, FAILED>>, <<UPLOADED, FAILED>> }

\* C3: every change of a record's status follows one of the edges
\* UPLOADED->PROCESSING, PROCESSING->COMPLETED, PROCESSING->FAILED,
\* UPLOADED->FAILED, so COMPLETED and FAILED are terminal.
C3_StatusEdges ==
  [][ (videoModel # Null /\ videoModel' # Null /\ videoModel'.status # videoModel.status)
        => <<videoModel.status, videoModel'.status>> \in StatusEdges ]_vars

\* C4: when the metadata probe of a job fails, the job leaves the record FAILED
\* with the first 500 characters of the error text as error_message, and no
\* conversion of the fan-out was launched.
C4_ProbeFailure ==
  (JobFailed /\ videoModel # Null) =>
    /\ videoModel.status = FAILED
    /\ videoModel.error_message =
         Str(job.error.str, IF job.error.len <= 500 THEN job.error.len ELSE 500)
    /\ \A c \in JobCallers : conv[c].pc = "idle"

\* C4 witness: a probe failed with a text longer than 500 characters and the
\* record is FAILED with its first 500.
C4_Witness ==
  /\ JobFailed /\ probeFailed /\ job.error.len > 500
  /\ videoModel # Null /\ videoModel.status = FAILED
  /\ videoModel.error_message.len = 500

\* C5: once the metadata probe of a video has failed, no format-converted
\* event is emitted for it, by the fan-out or by a download.
C5_NoFormatEventAfterProbeFailure ==
  \A e \in FormatEvents : ~e.afterProbeFailure

\* C6: for a video whose probe succeeds (and whose record holds the probed
\* duration, resolution and size), every format-converted event was emitted
\* after the record was PROCESSING with all three populated.
C6_MetadataBeforeFormatEvent ==
  (/\ probeOk
   /\ videoModel # Null
   /\ videoModel.duration # Null /\ videoModel.resolution # Null /\ videoModel.size # Null)
    => \A e \in FormatEvents : e.metaReady

\* C7: while a conversion launched by the job is still running the record's
\* status is PROCESSING: COMPLETED is written only after all of them settled.
C7_CompletedAfterAllSettled ==
  (videoModel # Null /\ \E c \in JobCallers : conv[c].pc \in Running)
    => videoModel.status = PROCESSING

\* C7 witness: one conversion of the fan-out has settled, another is still
\* running, and the record is PROCESSING.
C7_Witness ==
  /\ videoModel # Null /\ videoModel.status = PROCESSING
  /\ \E c1, c2 \in JobCallers : conv[c1].pc \in Settled /\ conv[c2].pc = "exec"

\* C8: the fan-out launches a conversion for every format and runs each to its
\* outcome whatever the others did, and when the job has completed the record
\* holds an entry for every format whose transcoding succeeded.
C8_FailureIsolation ==
  /\ job.pc = "fanout" => \A c \in JobCallers : conv[c].pc # "idle"
  /\ JobCompleted =>
       \A c \in JobCallers :
         /\ conv[c].pc \in Settled
         /\ (videoModel # Null /\ conv[c].transcoded) => HasEntry(conv[c].format)

\* C8 witness: the job completed, one conversion failed and another succeeded
\* and has its entry.
C8_Witness ==
  /\ JobCompleted /\ videoModel # Null
  /\ \E c1, c2 \in JobCallers :
       /\ conv[c1].pc = "failed" /\ ~HasEntry(conv[c1].format)
       /\ conv[c2].pc = "ok" /\ HasEntry(conv[c2].format)

AllFailed == \A c \in JobCallers : conv[c].pc = "failed"

\* C9: a failed conversion is not elevated to a failed job: after a successful
\* probe the record reaches COMPLETED with error_message null whatever
\* conversions failed, and with zero entries when all of them failed.
C9_FormatFailureNotElevated ==
  (JobCompleted /\ videoModel # Null) =>
    /\ videoModel.status = COMPLETED
    /\ videoModel.error_message = Null
    /\ AllFailed => videoModel.converted_formats = <<>>

\* C10: when the job ends in failure, the FAILED state is persisted and a
\* status-changed notification carrying the FAILED record has been emitted.
C10_FailedIsNotified ==
  (JobFailed /\ videoModel # Null /\ videoModel.status = FAILED) =>
    \E e \in StatusEvents : e.video.status = FAILED

\* The status events emitted by one delivery of the job.
StatusEventsOf(delivery) == {e \in StatusEvents : e.delivery = delivery}

\* C11: in each delivery of the job the PROCESSING notification with the
\* probed metadata is emitted before the terminal one: a step that emits a
\* COMPLETED or FAILED notification finds the PROCESSING notification of the
\* same delivery already emitted, carrying the metadata the terminal one
\* carries, and a PROCESSING notification is never emitted after it.
C11_ProcessingBeforeTerminal ==
  [][ /\ \A e \in StatusEvents' \ StatusEvents :
           e.video.status \in {COMPLETED, FAILED} =>
             \E p \in StatusEventsOf(e.delivery) :
               /\ p.video.status = PROCESSING
               /\ p.video.duration = e.video.duration
               /\ p.video.resolution = e.video.resolution
               /\ p.video.size = e.video.size
      /\ \A e \in StatusEvents' \ StatusEvents :
           e.video.status = PROCESSING =>
             \A t \in StatusEventsOf(e.delivery) : t.video.status = PROCESSING
    ]_vars

\* C11 witness: a redelivered job has emitted its PROCESSING notification and
\* then its COMPLETED one.
C11_Witness ==
  /\ JobCompleted /\ deliveries = 2
  /\ \E p, t \in StatusEventsOf(2) :
       p.video.status = PROCESSING /\ t.video.status = COMPLETED

\* The jobs enqueued for the record a createVideo call would create.
JobsOf(c) == {i \in 1..Len(videoQueue) : videoQueue[i].videoId = c}

\* C12: a create for a (user, filename) pair that already has a record fails,
\* creates no record and enqueues no job; a create is refused only then, so
\* the same filename under another user is accepted.
C12_DuplicateFilename ==
  /\ [](\A c \in CreateCalls :
          creates[c].pc = "BadRequest" => (c \notin DOMAIN videoDocs /\ JobsOf(c) = {}))
  /\ [][ \A c \in CreateCalls :
            (creates[c].pc = "idle" /\ creates'[c].pc # "idle") =>
              ( creates'[c].pc = "BadRequest"
                  <=> \E i \in DOMAIN videoDocs :
                        /\ videoDocs[i].user_email = creates'[c].userEmail
                        /\ videoDocs[i].filename = creates'[c].filename ) ]_vars

\* C12 witness: one create was refused as a duplicate, and another user's
\* create of the same filename went through.
C12_Witness ==
  \E c1, c2, c3 \in CreateCalls :
    /\ creates[c1].pc = "done" /\ creates[c2].pc = "BadRequest" /\ creates[c3].pc = "done"
    /\ creates[c2].userEmail = creates[c1].userEmail
    /\ creates[c3].userEmail # creates[c1].userEmail
    /\ creates[c2].filename = creates[c1].filename
    /\ creates[c3].filename = creates[c1].filename
    /\ c2 \notin DOMAIN videoDocs /\ JobsOf(c2) = {}

\* C13: no two records share the same (owning user, original filename) pair.
C13_UniqueUserFilename ==
  \A i, j \in DOMAIN videoDocs :
    (videoDocs[i].user_email = videoDocs[j].user_email
       /\ videoDocs[i].filename = videoDocs[j].filename) => i = j

\* The sockets the registry holds.
Registered == UNION {userSockets[u] : u \in DOMAIN userSockets}

\* The handshake's credential is present, verifies and names a user.
Admissible(handshake) ==
  /\ tokenOf(handshake) # Null
  /\ tokenOf(handshake).verifies
  /\ tokenOf(handshake).email # ""

\* C19: a connection with no credential or an invalid one is disconnected and
\* never recorded, and the step that rejects it leaves the registry as it was.
C19_RejectedNotRecorded ==
  /\ [](\A s \in Sockets :
          (clients[s].pc # "idle" /\ ~Admissible(clients[s].handshake)) =>
            /\ s \notin Registered
            /\ clients[s].pc \in {"verifyAsync", "rejected"}
            /\ clients[s].pc = "rejected" => ~clients[s].open)
  /\ [][ \A s \in Sockets :
            (clients[s].pc # "rejected" /\ clients'[s].pc = "rejected") =>
              userSockets' = userSockets ]_vars

\* C19 witness: a socket with a token that does not verify was rejected while
\* another socket is registered.
C19_Witness ==
  \E s, t \in Sockets :
    /\ clients[s].pc = "rejected" /\ tokenOf(clients[s].handshake) = BadToken
    /\ ~clients[s].open /\ s \notin Registered
    /\ t \in Registered

\* C20: the disconnect of a socket leaves its id in no set of the registry,
\* and the registry never maps a user to an empty set.
C20_DisconnectRemoves ==
  /\ [](\A u \in DOMAIN userSockets : userSockets[u] # {})
  /\ [][ \A s \in Sockets :
            (clients[s].open /\ ~clients'[s].open) => s \notin Registered' ]_vars

\* C20 witness: a registered socket has disconnected, it was its user's last
\* and the user's entry is gone, while another user's entry remains.
C20_Witness ==
  \E s, t \in Sockets :
    /\ clients[s].pc = "connected" /\ ~clients[s].open
    /\ clients[s].userEmail \notin DOMAIN userSockets
    /\ t \in Registered

C15_UnlinkFailureNotFatal ==
  /\ del.pc \in {"idle", "deleteOne", "done"}
  /\ del.pc \in {"deleteOne", "done"} =>
       (backingFiles(del.video) \ del.unlinkFailed) \cap files = {}
  /\ del.pc = "done" => videoModel = Null

\* C15 witness: delete has returned and the record is gone although the
\* unlink of the raw file failed, and the converted file after it was removed.
C15_Witness ==
  /\ del.pc = "done" /\ videoModel = Null
  /\ del.unlinkFailed = {del.video.raw_file_path}
  /\ del.video.raw_file_path \in files
  /\ \E i \in 1..Len(del.video.converted_formats) :
       del.video.converted_formats[i].file_path \notin files

\* The record holds an entry for the requested format whose file is on disk.
StoredOnDisk ==
  /\ videoModel # Null
  /\ FindFormat(videoModel.converted_formats, download.format) # 0
  /\ videoModel.converted_formats[FindFormat(videoModel.converted_formats,
                                               download.format)].file_path \in files

\* C16: a download for a format whose entry exists with its file on disk
\* answers with the stored location, starts no conversion, and changes
\* neither the record nor the disk nor the notifications.
C16_ServeStored ==
  [][ (download.pc = "getConvertedFormatPath" /\ download'.pc # download.pc /\ StoredOnDisk) =>
        /\ download'.pc = "done"
        /\ download'.result =
             videoModel.converted_formats[FindFormat(videoModel.converted_formats,
                                                     download.format)].file_path
        /\ UNCHANGED <<conv, videoModel, files, events, now>> ]_vars

\* C16 witness: the request was answered with the stored location and its
\* conversion was never started.
C16_Witness ==
  /\ download.pc = "done" /\ conv[DownloadCaller].pc = "idle"
  /\ StoredOnDisk
  /\ download.result = getConvertedFormatPath(videoModel, download.format)

\* C17 as stated: when an on-demand conversion succeeds, the location the
\* request answers with is the location the record stores for the format, and
\* the format-converted event for it has been published.
C17_OnDemandStored ==
  [][ (download.pc = "converting" /\ download'.pc = "done"
         /\ conv'[DownloadCaller].pc = "ok" /\ videoModel' # Null) =>
        /\ getConvertedFormatPath(videoModel', download.format) = download'.result
        /\ \E e \in FormatEvents' :
             e.format = download.format /\ e.filePath = download'.result ]_vars

\* C17 amended: a download without a servable stored file answers only after
\* its conversion has settled; when the conversion succeeds, its upsert stored
\* the returned location in an entry of the format, the record (while it
\* exists) still holds an entry of that format at the answer, and the
\* format-converted event for (video, format, location) has been published.
C17_OnDemandEntry ==
  [][ /\ (download.pc = "converting" /\ download'.pc = "done") =>
           conv'[DownloadCaller].pc \in Settled
      /\ (conv[DownloadCaller].pc = "save" /\ conv'[DownloadCaller].pc = "notify") =>
           \E i \in 1..Len(videoModel'.converted_formats) :
             /\ videoModel'.converted_formats[i].format = download.format
             /\ videoModel'.converted_formats[i].file_path = conv[DownloadCaller].path
      /\ (download.pc = "converting" /\ download'.pc = "done"
             /\ conv'[DownloadCaller].pc = "ok") =>
           /\ download'.result = conv[DownloadCaller].path
           /\ videoModel' # Null =>
                FindFormat(videoModel'.converted_formats, download.format) # 0
           /\ \E e \in FormatEvents' :
                /\ e.videoId = VideoId /\ e.format = download.format
                /\ e.filePath = download'.result ]_vars

\* C17 witness: an on-demand conversion succeeded and the request answered
\* with the location the record stores for the format.
C17_Witness ==
  /\ download.pc = "done" /\ conv[DownloadCaller].pc = "ok"
  /\ download.format \in getSupportedFormatValues
  /\ videoModel # Null
  /\ getConvertedFormatPath(videoModel, download.format) = download.result
  /\ \E e \in FormatEvents : e.format = download.format /\ e.filePath = download.result

\* C18: a download for a format outside the supported set starts no
\* conversion, and converted_formats only ever holds supported formats.
C18_UnsupportedFormat ==
  /\ download.format \notin getSupportedFormatValues \cup {""} =>
       conv[DownloadCaller].pc = "idle"
  /\ videoModel # Null =>
       \A i \in 1..Len(videoModel.converted_formats) :
         videoModel.converted_formats[i].format \in getSupportedFormatValues

\* C21: a notification for a user's video reaches every live connection that
\* is registered for that user at the time of the call and no other
\* connection; nothing but a notify call delivers, so a call made while the
\* user has no connection reaches nobody, also not one that registers later.
C21_DeliveredToOwnerOnly ==
  /\ [][ Len(notified') = Len(notified) + 1 =>
            LET message == notified'[Len(notified')]
            IN  \A s \in Sockets :
                  IF /\ message.to \in DOMAIN userSockets
                     /\ s \in userSockets[message.to]
                     /\ clients[s].open
                    THEN inbox'[s] = inbox[s] \cup {[call |-> Len(notified'), message |-> message]}
                    ELSE inbox'[s] = inbox[s] ]_vars
  /\ [][ notified' = notified => inbox' = inbox ]_vars
  /\ [](\A s \in Sockets : \A m \in inbox[s] :
          /\ m.call <= Len(notified) /\ m.message = notified[m.call]
          /\ clients[s].userEmail = m.message.to)

\* C21 witness: with a socket of alice and a socket of bob registered and
\* open, a call for alice has reached her socket alone.
C21_Witness ==
  \E s, t \in Sockets :
    /\ Len(notified) = 1 /\ notified[1].to = "alice"
    /\ clients[s].userEmail = "alice" /\ clients[t].userEmail = "bob"
    /\ s \in Registered /\ t \in Registered
    /\ clients[s].open /\ clients[t].open
    /\ inbox[s] = {[call |-> 1, message |-> notified[1]]}
    /\ inbox[t] = {}

\* C22: a get, download or delete by a user who is not the record's owner
\* fails with NotFound, and the step of that request leaves the record, its
\* entries, the files on disk, the conversions and the delete untouched: no
\* conversion is started for it.
C22_NonOwnerNotFound ==
  /\ [](\A i \in 1..Len(requests) :
          requests[i].user # Owner => requests[i].result = "NotFound")
  /\ [][ (Len(requests') = Len(requests) + 1 /\ requests'[Len(requests')].user # Owner) =>
            UNCHANGED <<videoModel, files, conv, download, del, events, videoQueue>> ]_vars
  /\ [](\A e \in events : e.to = Owner)

\* C22 witness: the owner's download was admitted and its conversion stored an
\* entry; after that another user's download and delete were refused, and
\* the record, its entry and both files are still there.
C22_Witness ==
  /\ Len(requests) = 3
  /\ requests[1] = [op |-> "download", user |-> Owner, result |-> "ok"]
  /\ requests[2] = [op |-> "download", user |-> "bob", result |-> "NotFound"]
  /\ requests[3] = [op |-> "delete", user |-> "bob", result |-> "NotFound"]
  /\ videoModel # Null /\ Len(videoModel.converted_formats) = 1
  /\ backingFiles(videoModel) \subseteq files
  /\ del.pc = "idle"

\* The metadata fields the updateVideoStatus call of the job's next step
\* provides.
ProvidedFields ==
  CASE job.pc = "saveMetadata" -> {k \in DOMAIN job.meta : job.meta[k] # Null}
    [] job.pc = "catch" -> {"error_message"}
    [] OTHER -> {}

\* C23: an updateVideoStatus call leaves every field it does not provide as it
\* was: a step of the job changes no field of the record other than status
\* and the fields its call provides, so the COMPLETED update keeps the probed
\* duration, resolution and size.
C23_OmittedFieldsKept ==
  [][ (job'.pc # job.pc /\ videoModel # Null /\ videoModel' # Null) =>
        \A k \in DOMAIN videoModel \ ({"status"} \cup ProvidedFields) :
          videoModel'[k] = videoModel[k] ]_vars

\* C23 witness: the job has written COMPLETED, and later FAILED with an error
\* message in its second delivery, and the record still holds the duration,
\* resolution and size of the probe.
C23_Witness ==
  /\ JobFailed /\ deliveries = 2
  /\ videoModel # Null /\ videoModel.status = FAILED
  /\ videoModel.error_message # Null
  /\ videoModel.duration = Num(125)
  /\ videoModel.resolution = [w |-> 1920, h |-> 1080]
  /\ videoModel.size = Num(RawFileSize)

\* The record as the COMPLETED notification of the first delivery carried it.
FirstRun == {e.video : e \in {x \in StatusEventsOf(1) : x.video.status = COMPLETED}}

\* Both deliveries' probes reported the same metadata.
SameProbe ==
  \E p1 \in StatusEventsOf(1), p2 \in StatusEventsOf(2) :
    p1.probed # Null /\ p1.probed = p2.probed

\* C24: when the job is processed a second time after its first run has
\* completed, and the probe reports what it reported before, the second run
\* ends with the record COMPLETED, with the duration, resolution, size and
\* error_message of the first run, with an entry for every format that had
\* one, and with at most one entry per format.
C24_SecondRunSameState ==
  (JobCompleted /\ deliveries = 2 /\ videoModel # Null /\ SameProbe) =>
    \A first \in FirstRun :
      /\ videoModel.status = COMPLETED
      /\ videoModel.duration = first.duration
      /\ videoModel.resolution = first.resolution
      /\ videoModel.size = first.size
      /\ videoModel.error_message = first.error_message
      /\ \A i \in 1..Len(first.converted_formats) :
           FindFormat(videoModel.converted_formats, first.converted_formats[i].format) # 0
      /\ \A i, j \in 1..Len(videoModel.converted_formats) :
           videoModel.converted_formats[i].format = videoModel.converted_formats[j].format
             => i = j

\* C24 witness: both runs completed with the same probe; the first had stored
\* an entry per format and the second replaced the location of each.
C24_Witness ==
  /\ JobCompleted /\ deliveries = 2 /\ videoModel # Null /\ SameProbe
  /\ \E first \in FirstRun :
       /\ Len(first.converted_formats) = NumFormats
       /\ Len(videoModel.converted_formats) = NumFormats
       /\ \A i \in 1..NumFormats :
            videoModel.converted_formats[i].file_path # first.converted_formats[i].file_path

\* C25: a create enqueues at most one job for its record: exactly one, with
\* the record's id and raw file path, once it has returned; none before its
\* enqueue and none when the enqueue fails, and then the create throws while
\* the record it saved stays, with status UPLOADED.
C25_OneJobPerRecord ==
  \A c \in CreateCalls :
    /\ Cardinality(JobsOf(c)) <= 1
    /\ creates[c].pc = "done" =>
         /\ c \in DOMAIN videoDocs
         /\ \E i \in JobsOf(c) :
              videoQueue[i] = [videoId |-> c, rawFilePath |-> videoDocs[c].raw_file_path]
    /\ creates[c].pc # "done" => JobsOf(c) = {}
    /\ creates[c].pc = "Error" =>
         /\ c \in DOMAIN videoDocs
         /\ videoDocs[c].status = UPLOADED

\* C25 witness: one create returned with its job in the queue, another one's
\* enqueue failed and its record is there, UPLOADED, with no job.
C25_Witness ==
  \E c1, c2 \in CreateCalls :
    /\ creates[c1].pc = "done" /\ Cardinality(JobsOf(c1)) = 1
    /\ creates[c2].pc = "Error" /\ JobsOf(c2) = {}
    /\ c2 \in DOMAIN videoDocs /\ videoDocs[c2].status = UPLOADED

\* C26: two conversions that are in flight at the same time (ffmpeg running)
\* write to different output files.
C26_DistinctOutputPaths ==
  \A c1, c2 \in Callers :
    (c1 # c2 /\ conv[c1].pc = "exec" /\ conv[c2].pc = "exec") =>
      conv[c1].path # conv[c2].path

Terminal == videoModel # Null /\ videoModel.status \in {COMPLETED, FAILED}

\* C27: on a record that is not deleted, with every probe and transcoder
\* terminating, each delivery of the job runs to the end of the handler, and
\* the handler ends with the record COMPLETED or FAILED.
C27_JobTerminates ==
  /\ \A d \in 1..(1 + maxStalledCount) :
       (deliveries = d /\ job.pc # "done") ~> (deliveries = d /\ job.pc = "done" /\ Terminal)
  /\ [](job.pc = "done" => Terminal)

\* C27 witness: the redelivered job has run to its end, one of its conversions
\* having failed, and the record is COMPLETED.
C27_Witness ==
  /\ deliveries = 2 /\ job.pc = "done" /\ Terminal
  /\ videoModel.status = COMPLETED
  /\ \E c \in JobCallers : conv[c].pc = "failed"

\* The codec pairs of the six formats: <<video codec, audio codec>>.
CodecTable(format) ==
  CASE format \in {"mp4", "mov", "mkv"} -> <<"libx264", "aac">>
    [] format = "webm" -> <<"libvpx-vp9", "libopus">>
    [] format \in {"avi", "flv"} -> <<"libx264", "mp3">>

\* C28: every conversion launched for a supported format runs ffmpeg with the
\* codec pair of the table (as does the codec choice for each of the six
\* formats), and the conversion of a download runs with the same codecs and
\* watermark text as the fan-out's conversion of the same format.
C28_CodecMapping ==
  /\ \A c \in Callers :
       (conv[c].pc # "idle" /\ conv[c].format \in getSupportedFormatValues) =>
         <<conv[c].command.videoCodec, conv[c].command.audioCodec>> = CodecTable(conv[c].format)
  /\ \A f \in getSupportedFormatValues :
       <<codecs(f).videoCodec, codecs(f).audioCodec>> = CodecTable(f)
  /\ \A c \in JobCallers :
       (conv[c].pc # "idle" /\ conv[DownloadCaller].pc # "idle"
          /\ conv[c].format = conv[DownloadCaller].format) =>
         conv[c].command = conv[DownloadCaller].command

\* C28 witness: a download asked for MP4 and its conversion runs beside the
\* fan-out's mp4 and webm conversions, with H.264 and AAC and the text of the
\* fan-out's mp4 conversion, the webm one with VP9 and Opus.
C28_Witness ==
  /\ conv[DownloadCaller].pc = "exec"
  /\ conv[<<"job", "mp4">>].pc = "exec" /\ conv[<<"job", "webm">>].pc = "exec"
  /\ conv[DownloadCaller].command = conv[<<"job", "mp4">>].command
  /\ conv[DownloadCaller].command.text[2] = "MP4"
  /\ conv[<<"job", "webm">>].command.videoCodec = "libvpx-vp9"
  /\ conv[<<"job", "webm">>].command.audioCodec = "libopus"

\* C29: when no handleConnection is waiting for its verification, every
\* socket id in the registry is the id of a socket that is still open: a
\* socket that closed while its verification was pending is not registered.
C29_NoStaleSocket ==
  (\A s \in Sockets : clients[s].pc # "verifyAsync") =>
    \A s \in Registered : clients[s].open

\* C30: once delete has removed the record, no write of the job or of a
\* conversion that was in flight brings it back, and no notification for the
\* video is emitted any more.
C30_DeletedStaysSilent ==
  [][ del.pc = "done" => (videoModel' = Null /\ events' = events) ]_vars

\* The current delivery found no record at its findOne.
RecordVanished == deliveries >= 1 /\ job.video = Null /\ job.pc \in {"catch", "done"}

\* C31: a delivery of the job that finds no record goes from findOne to the
\* catch block and from there to the end of the handler: it does not probe,
\* launches no conversion, creates no record, emits no notification, and puts
\* no job into the queue.
C31_VanishedRecord ==
  /\ [][ (job.pc = "findOne" /\ videoModel = Null /\ job'.pc # job.pc) =>
            /\ job'.pc = "catch"
            /\ UNCHANGED <<videoModel, events, conv, probeOk, probeFailed, videoQueue>> ]_vars
  /\ [][ (job.pc = "catch" /\ job.video = Null /\ job'.pc # job.pc) =>
            /\ job'.pc = "done" /\ videoModel' = Null
            /\ UNCHANGED <<events, conv, probeOk, probeFailed, videoQueue>> ]_vars
  /\ [](RecordVanished =>
          /\ videoModel = Null /\ videoQueue = <<>>
          /\ \A c \in JobCallers : conv[c].pc = "idle")

\* C31 witness: the record was deleted before the job's first delivery, and
\* the handler has ended with nothing probed, converted, stored or notified.
C31_Witness ==
  /\ RecordVanished /\ job.pc = "done" /\ deliveries = 1
  /\ job.error = Str("Video not found", 15)
  /\ videoModel = Null /\ events = {} /\ ~probeOk /\ ~probeFailed
  /\ \A c \in JobCallers : conv[c].pc = "idle"

\* The COMPLETED notifications of the current delivery.
CompletedEvents == {e \in StatusEventsOf(deliveries) : e.video.status = COMPLETED}

\* C32: a conversion of the fan-out emits its format-converted event while
\* the COMPLETED notification of its delivery is not yet emitted, and the
\* record that notification carries has an entry for every format whose
\* conversion of that delivery emitted its event.
C32_FormatEventsBeforeCompleted ==
  /\ [][ \A c \in JobCallers :
            (conv[c].pc = "notify" /\ conv'[c].pc = "ok") =>
              /\ CompletedEvents = {}
              /\ \E e \in FormatEvents' : e.format = conv[c].format /\ e.filePath = conv[c].path
        ]_vars
  /\ [][ \A e \in StatusEvents' \ StatusEvents :
            e.video.status = COMPLETED =>
              \A c \in JobCallers :
                conv[c].pc = "ok" => FindFormat(e.video.converted_formats, conv[c].format) # 0
        ]_vars
  /\ [](CompletedEvents # {} => \A c \in JobCallers : conv[c].pc \in Settled)

\* C32 witness: the COMPLETED notification of the delivery is out, it lists
\* both formats, and both format-converted events of the fan-out are there.
C32_Witness ==
  /\ \E e \in CompletedEvents : Len(e.video.converted_formats) >= NumFormats
  /\ \A c \in JobCallers :
       /\ conv[c].pc = "ok"
       /\ \E e \in FormatEvents : e.format = conv[c].format /\ e.filePath = conv[c].path

\* C33: the save of addConvertedFormat changes converted_formats (and the
\* version key) only: status, metadata and error_message keep the values the
\* record holds at the save, whatever updateVideoStatus wrote since the
\* call read the record.
C33_SaveKeepsOtherFields ==
  [][ \A c \in Callers :
        (conv[c].pc = "save" /\ conv'[c].pc # "save" /\ videoModel # Null) =>
          /\ videoModel' # Null
          /\ \A k \in DOMAIN videoModel \ {"converted_formats", "v"} :
               videoModel'[k] = videoModel[k] ]_vars

\* C33 witness: the download's addConvertedFormat read the record before the
\* fan-out pushed its entries (it saw version 0 and no entry), the job has
\* since pushed them and written COMPLETED, and the download's save is next.
C33_Witness ==
  /\ conv[DownloadCaller].pc = "save"
  /\ conv[DownloadCaller].version = 0 /\ conv[DownloadCaller].index = 0
  /\ videoModel # Null /\ videoModel.v = NumFormats
  /\ videoModel.status = COMPLETED /\ job.pc = "done"

\* C34: a COMPLETED record has no error_message and a FAILED record has a
\* non-empty one.
C34_ErrorMessageMatchesStatus ==
  videoModel # Null =>
    /\ videoModel.status = COMPLETED => videoModel.error_message = Null
    /\ videoModel.status = FAILED =>
         (videoModel.error_message # Null /\ videoModel.error_message.len > 0)

\* C35: the conversion of a download request is launched only on a record
\* whose status is PROCESSING or COMPLETED.
C35_OnDemandOnlyWhenReady ==
  [][ (conv[DownloadCaller].pc = "idle" /\ conv'[DownloadCaller].pc = "exec") =>
        (videoModel # Null /\ videoModel.status \in {PROCESSING, COMPLETED}) ]_vars

\* C36: when no conversion is in flight, every file under uploads/processed
\* is the file_path of an entry of the existing record.
C36_NoUnreferencedFile ==
  (\A c \in Callers : conv[c].pc \notin Running) =>
    \A f \in files :
      f.dir = "uploads/processed" =>
        /\ videoModel # Null
        /\ \E i \in 1..Len(videoModel.converted_formats) :
             videoModel.converted_formats[i].file_path = f

\* The updateVideoStatus call of the job's next step: its status and its data.
CallOfJob ==
  CASE job.pc = "saveMetadata" -> [status |-> PROCESSING, data |-> job.meta]
    [] job.pc = "catch" ->
         [status |-> FAILED, data |-> [error_message |-> substring(job.error, 500)]]
    [] OTHER -> [status |-> "", data |-> NoData]

\* C37: after an updateVideoStatus call of the job returns a record, the
\* record's status is the status of the call and every metadata field the call
\* provides (a value other than null) has the value the call gave, the value
\* 0 included.
C37_ProvidedValuesStored ==
  [][ (job'.pc # job.pc /\ CallOfJob.status # "" /\ videoModel' # Null) =>
        /\ videoModel'.status = CallOfJob.status
        /\ \A k \in DOMAIN CallOfJob.data :
             CallOfJob.data[k] # Null => videoModel'[k] = CallOfJob.data[k] ]_vars

\* The credentials of a handshake in the order cookie, auth payload, bearer
\* header, and the first of them that is present (Null when there is none).
Credentials(handshake) == <<handshake.cookie, handshake.auth, handshake.bearer>>

FirstPresent(handshake) ==
  LET cs == Credentials(handshake)
      present == {i \in 1..3 : cs[i] # Null}
  IN  IF present = {} THEN Null
      ELSE cs[CHOOSE i \in present : \A j \in present : i <= j]

\* C38: the first credential present, in the order cookie, auth payload,
\* bearer header, decides a connection: the socket is registered, under that
\* credential's email and no other, exactly when that credential verifies and
\* carries an email, and is rejected otherwise, whatever a later credential
\* holds.
C38_FirstCredentialDecides ==
  /\ [](\A s \in Sockets :
          LET d == FirstPresent(clients[s].handshake)
              ok == d # Null /\ d.verifies /\ d.email # ""
          IN  clients[s].pc \in {"connected", "rejected"} =>
                /\ (clients[s].pc = "connected") = ok
                /\ clients[s].pc = "connected" => clients[s].userEmail = d.email
                /\ \A u \in DOMAIN userSockets :
                     s \in userSockets[u] => ok /\ u = d.email)
  /\ [][ \A s \in Sockets :
            (clients[s].pc = "verifyAsync" /\ clients'[s].pc = "connected") =>
              LET d == FirstPresent(clients[s].handshake)
              IN  d.email \in DOMAIN userSockets' /\ s \in userSockets'[d.email] ]_vars

\* C38 witness: one socket offered a cookie that does not verify together
\* with a valid auth token and was rejected; the other offered alice's cookie
\* together with bob's auth token and is registered under alice only.
C38_Witness ==
  \E s, t \in Sockets :
    /\ clients[s].pc = "rejected"
    /\ clients[s].handshake.cookie = BadToken
    /\ clients[s].handshake.auth = TokenOf("alice")
    /\ clients[t].pc = "connected" /\ clients[t].open
    /\ clients[t].handshake.cookie = TokenOf("alice")
    /\ clients[t].handshake.auth = TokenOf("bob")
    /\ userSockets = [u \in {"alice"} |-> {t}]

\* C39: the step that records a failure stores FAILED with the error text cut
\* to its first 500 characters (the whole text when it is shorter), and no
\* record ever holds an error_message longer than 500 characters.
C39_ErrorMessageAtMost500 ==
  /\ [](videoModel # Null /\ videoModel.error_message # Null =>
          videoModel.error_message.len <= 500)
  /\ [][ (job.pc = "catch" /\ job'.pc = "done" /\ videoModel' # Null) =>
          /\ videoModel'.status = FAILED
          /\ videoModel'.error_message.str = job.error.str
          /\ videoModel'.error_message.len = Min(job.error.len, 500) ]_vars

\* C39 witness: the second delivery of the job failed with a text of 620
\* characters after the first had probed the file, and the record holds the
\* first 500 characters of that text.
C39_Witness ==
  /\ JobFailed /\ deliveries = 2 /\ probeOk
  /\ job.error.len = 620
  /\ videoModel # Null /\ videoModel.status = FAILED
  /\ videoModel.error_message = Str(job.error.str, 500)

====

